---- MODULE Spec2Model ----
(***************************************************************************)
(* Model of src/index.js: an Express application with three file-backed    *)
(* collections (users, timers, sessions), cookie sessions and per-user     *)
(* timers.                                                                 *)
(*                                                                         *)
(* Scheduling.  Node runs each handler to completion on one thread.  All   *)
(* file access is synchronous (readFileSync / writeFileSync), so a handler *)
(* is interrupted only at an `await`: /signup awaits bcrypt.hash between   *)
(* its read and its write of users, /login awaits bcrypt.compare between   *)
(* its read of users and updateSession.  Every other handler is one step.  *)
(*                                                                         *)
(* Values.  nanoid() is modelled as a fresh identifier (a counter): the    *)
(* library draws 21 symbols from a 64-symbol alphabet and a collision is   *)
(* not a behaviour the model explores.  bcrypt is modelled as an injective *)
(* hash (the 72-byte truncation of bcrypt is outside the bounds).          *)
(*                                                                         *)
(* Workloads.  Spec is the account workload (signup, login, logout, a      *)
(* protected request) with concurrent suspended handlers; TimerSpec is the *)
(* timer workload (signup one at a time, logout, list, start, stop, the    *)
(* clock).  Both start from the empty collections and use the same         *)
(* handlers.                                                               *)
(***************************************************************************)
EXTENDS Integers, Sequences, FiniteSets, TLC

\* ---------------------------------------------------------------- bounds
MaxIds   == 4      \* nanoid() values drawn by /signup and /login in one behaviour
MaxTimers == 2     \* timers created in one behaviour
MaxClock == 1      \* Date.now() ranges over 0..MaxClock
MaxReqs  == 2      \* /signup and /login requests suspended at an await

\* ---------------------------------------------------------------- values
Undefined == 0     \* the JavaScript value undefined (absent id, cookie or index)
NoTime    == -1    \* a timer without the property end / duration
Slots     == 1..MaxReqs

\* request inputs; "" is the empty (or missing) field
Usernames    == {"", "a", "b"}
Passwords    == {"", "p", "q"}
Descriptions == {"", "d"}
Queries      == {"true", "false", ""}     \* the query parameter isActive

VARIABLES
  users,      \* db/users.json    : sequence of [_id, username, password]
  sessions,   \* db/sessions.json : function sessionId -> [userId]
  timers,     \* db/timers.json   : sequence of timer records
  clock,      \* Date.now()
  nextId,     \* next value of nanoid()
  reqs,       \* requests suspended at an await, by slot
  resp,       \* the response sent last
  signedUp,   \* history: [username, password, user] of signups answered with success
  issued,     \* history: [sessionId, userId] of session cookies set by signup and login
  loggedOut,  \* history: session ids presented to a logout that passed the gate
  up          \* the server process is running

\* The cookie a request presents: none, a session id that signup or login
\* set (live or logged out), or a string that never was a session id (the
\* identifier nanoid() has not generated yet stands for it).
Cookies == {Undefined, nextId} \cup {i.sessionId : i \in issued}

\* The :id of a stop request: the id of a stored timer, or an id that no
\* timer has
TimerIds == {timers[i].id : i \in 1..Len(timers)} \cup {nextId}

vars == <<users, sessions, timers, clock, nextId, reqs, resp, signedUp, issued, loggedOut, up>>

Range(s) == {s[i] : i \in 1..Len(s)}

Idle == [pc |-> "idle"]

NoResp == [op |-> "none", status |-> 0, setCookie |-> Undefined, body |-> <<>>]

\* a response: the route, the status, Set-Cookie of sessionId, the JSON body
\* (a list of timers, or the message of the 400 of POST /api/timers)
Response(op, status, setCookie, body) ==
  [op |-> op, status |-> status, setCookie |-> setCookie, body |-> body]

\* ------------------------------------------------------------- db, bcrypt
\* bcrypt.hash(password, 10)
Hash(password) == <<"bcrypt", password>>

\* bcrypt.compare(password, hash)
Compare(password, hash) == hash = Hash(password)

\* faulty variant: the lookup never finds a user
FindNone(us, username) == Undefined

\* users.find((user) => user.username === username): the position of the
\* first match, Undefined when find() returns undefined
Find(us, username) ==
  IF \E i \in 1..Len(us) : us[i].username = username
  THEN CHOOSE i \in 1..Len(us) :
            /\ us[i].username = username
            /\ \A j \in 1..(i - 1) : us[j].username # username
  ELSE Undefined

\* faulty variant: the write keeps the new record only
PushAlone(list, record) == <<record>>

\* users.push(newUser), timers.push(newTimer)
Push(list, record) == Append(list, record)

\* faulty variant: no string counts as missing
EmptyNever(str) == FALSE

\* !username, !password, !description: the empty (or missing) string is falsy
Empty(str) == str = ""

\* faulty variant: the new session replaces the user's earlier sessions
UpdateSessionSingle(ss, sessionId, user) ==
  [k \in {j \in DOMAIN ss : ss[j].userId # user._id} \cup {sessionId} |->
     IF k = sessionId THEN [userId |-> user._id] ELSE ss[k]]

\* sessions[sessionId] = { userId: user._id } with sessionId = nanoid(),
\* then SESSIONS.write(sessions)
UpdateSession(ss, sessionId, user) ==
  [k \in DOMAIN ss \cup {sessionId} |->
     IF k = sessionId THEN [userId |-> user._id] ELSE ss[k]]

\* faulty variant: the entry is not deleted
DeleteNothing(ss, sessionId) == ss

\* faulty variant: every session of the user is deleted
DeleteUserSessions(ss, sessionId) ==
  [k \in {j \in DOMAIN ss : sessionId \notin DOMAIN ss \/ ss[j].userId # ss[sessionId].userId}
     |-> ss[k]]

\* delete sessions[req.cookies.sessionId], then SESSIONS.write(sessions)
DeleteSession(ss, sessionId) ==
  [k \in DOMAIN ss \ {sessionId} |-> ss[k]]

\* checkSession(req, res).  When the cookie is missing or is no key of
\* sessions, the 401 response is sent and the value returned is what
\* res.status(401).json(...) returns: the response object res itself, whose
\* property userId is undefined.  Otherwise the session record is returned.
checkSession(cookie) ==
  IF cookie = Undefined \/ cookie \notin DOMAIN sessions
  THEN [returns |-> "res", sent |-> 401, userId |-> Undefined]
  ELSE [returns |-> "session", sent |-> 0, userId |-> sessions[cookie].userId]

\* !session in `if (!session) return;`: false for an object, which both
\* the session record and res are
Not(session) == session.returns \notin {"session", "res"}

\* The status the client receives: the first response sent on res.  A later
\* res.json / res.send / res.redirect throws ERR_HTTP_HEADERS_SENT and sends
\* nothing.
Sent(session, status) == IF session.sent # 0 THEN session.sent ELSE status

\* the body and the cookie go out only with the first response
First(session, value, none) == IF session.sent # 0 THEN none ELSE value

\* faulty variant: the filter ignores the owner
FilterAnyOwner(ts, isActiveBool, userId) ==
  SelectSeq(ts, LAMBDA t : t.isActive = isActiveBool)

\* timers.filter((timer) => timer.isActive === isActiveBool &&
\*                          timer.userId === session.userId)
Filter(ts, isActiveBool, userId) ==
  SelectSeq(ts, LAMBDA t : t.isActive = isActiveBool /\ t.userId = userId)

\* faulty variant: the lookup ignores the owner
FindTimerAnyOwner(ts, id, userId) ==
  IF \E i \in 1..Len(ts) : ts[i].id = id
  THEN CHOOSE i \in 1..Len(ts) : ts[i].id = id
  ELSE Undefined

\* timers.find((t) => t.id === id && t.userId === session.userId): the
\* position of the first match, Undefined when find() returns undefined
FindTimer(ts, id, userId) ==
  IF \E i \in 1..Len(ts) : ts[i].id = id /\ ts[i].userId = userId
  THEN CHOOSE i \in 1..Len(ts) :
            /\ ts[i].id = id /\ ts[i].userId = userId
            /\ \A j \in 1..(i - 1) : ~(ts[j].id = id /\ ts[j].userId = userId)
  ELSE Undefined

\* the object literal of POST /api/timers
NewTimer(id, now, description, userId) ==
  [id |-> id, start |-> now, description |-> description, isActive |-> TRUE,
   userId |-> userId, progress |-> 0, end |-> NoTime, duration |-> NoTime]

\* faulty variant: the duration is the end time
StopFieldsNoStart(timer, now) ==
  [timer EXCEPT !.isActive = FALSE, !.end = now, !.duration = now]

\* timer.isActive = false; timer.end = Date.now();
\* timer.duration = timer.end - timer.start
StopFields(timer, now) ==
  [timer EXCEPT !.isActive = FALSE, !.end = now, !.duration = now - timer.start]

Init ==
  /\ users = <<>>
  /\ sessions = <<>>
  /\ timers = <<>>
  /\ clock = 0
  /\ nextId = 1
  /\ reqs = [s \in Slots |-> Idle]
  /\ resp = NoResp
  /\ signedUp = {}
  /\ issued = {}
  /\ loggedOut = {}
  /\ up = TRUE

\* Date.now() advances between requests
Tick ==
  /\ clock < MaxClock
  /\ clock' = clock + 1
  /\ UNCHANGED <<users, sessions, timers, nextId, reqs, resp, signedUp, issued, loggedOut, up>>

\* GET /api/timers?isActive=...
ListTimers(cookie, isActive) ==
  LET session == checkSession(cookie)
      isActiveBool == isActive = "true"
      filteredTimers == Filter(timers, isActiveBool, session.userId)
  IN /\ resp' = IF Not(session)
                THEN Response("list", session.sent, Undefined, <<>>)
                ELSE Response("list", Sent(session, 200), Undefined,
                              First(session, filteredTimers, <<>>))
     /\ UNCHANGED <<users, sessions, timers, clock, nextId, reqs, signedUp, issued, loggedOut, up>>

\* POST /api/timers
StartTimer(cookie, description) ==
  LET session == checkSession(cookie)
      newTimer == NewTimer(nextId, clock, description, session.userId)
  IN IF Not(session)
     THEN /\ resp' = Response("start", session.sent, Undefined, <<>>)
          /\ UNCHANGED <<users, sessions, timers, clock, nextId, reqs, signedUp, issued, loggedOut, up>>
     ELSE IF Empty(description)
     THEN /\ resp' = Response("start", Sent(session, 400), Undefined,
                              First(session, <<"Description is required">>, <<>>))
          /\ UNCHANGED <<users, sessions, timers, clock, nextId, reqs, signedUp, issued, loggedOut, up>>
     ELSE /\ Len(timers) < MaxTimers
          /\ nextId' = nextId + 1
          /\ timers' = Push(timers, newTimer)
          /\ resp' = Response("start", Sent(session, 201), Undefined,
                              First(session, <<newTimer>>, <<>>))
          /\ UNCHANGED <<users, sessions, clock, reqs, signedUp, issued, loggedOut, up>>

\* POST /api/timers/:id/stop
StopTimer(cookie, id) ==
  LET session == checkSession(cookie)
      timer == FindTimer(timers, id, session.userId)
  IN IF Not(session)
     THEN /\ resp' = Response("stop", session.sent, Undefined, <<>>)
          /\ UNCHANGED <<users, sessions, timers, clock, nextId, reqs, signedUp, issued, loggedOut, up>>
     ELSE IF timer = Undefined
     THEN /\ resp' = Response("stop", Sent(session, 403), Undefined, <<>>)
          /\ UNCHANGED <<users, sessions, timers, clock, nextId, reqs, signedUp, issued, loggedOut, up>>
     ELSE /\ timers' = [timers EXCEPT ![timer] = StopFields(@, clock)]
          /\ resp' = Response("stop", Sent(session, 200), Undefined,
                              First(session, <<StopFields(timers[timer], clock)>>, <<>>))
          /\ UNCHANGED <<users, sessions, clock, nextId, reqs, signedUp, issued, loggedOut, up>>

\* GET /logout
Logout(cookie) ==
  LET session == checkSession(cookie)
  IN IF Not(session)
     THEN /\ resp' = Response("logout", session.sent, Undefined, <<>>)
          /\ UNCHANGED <<users, sessions, timers, clock, nextId, reqs, signedUp, issued, loggedOut, up>>
     ELSE /\ sessions' = DeleteSession(sessions, cookie)
          /\ resp' = Response("logout", Sent(session, 302), Undefined, <<>>)
          /\ loggedOut' = IF session.sent # 0 THEN loggedOut ELSE loggedOut \cup {cookie}
          /\ UNCHANGED <<users, timers, clock, nextId, reqs, signedUp, issued, up>>

\* the number of nanoid() values drawn so far by /signup and /login (every
\* timer in the collection drew one)
Drawn == nextId - 1 - Len(timers)

\* The slot a handler that suspends is kept in: the lowest idle one of the
\* first n, Undefined when n handlers are suspended already
FreeSlot(n) ==
  IF \E s \in 1..n : reqs[s] = Idle
  THEN CHOOSE s \in 1..n : reqs[s] = Idle /\ \A t \in 1..(s - 1) : reqs[t] # Idle
  ELSE Undefined

\* POST /signup up to `await bcrypt.hash(password, 10)`: the validation, the
\* read of users and the lookup; the handler suspends holding its copy of
\* users
SignupStart(n, username, password) ==
  LET existingUser == Find(users, username)
      s == FreeSlot(n)
  IN IF Empty(username) \/ Empty(password)
     THEN /\ resp' = Response("signup", 400, Undefined, <<>>)
          /\ UNCHANGED <<users, sessions, timers, clock, nextId, reqs, signedUp, issued, loggedOut, up>>
     ELSE IF existingUser # Undefined
     THEN /\ resp' = Response("signup", 409, Undefined, <<>>)
          /\ UNCHANGED <<users, sessions, timers, clock, nextId, reqs, signedUp, issued, loggedOut, up>>
     ELSE /\ s # Undefined
          /\ reqs' = [reqs EXCEPT ![s] =
                        [pc |-> "hash", username |-> username,
                         password |-> password, users |-> users]]
          /\ UNCHANGED <<users, sessions, timers, clock, nextId, resp, signedUp, issued, loggedOut, up>>

\* POST /signup after the await: push the new user onto the copy read before
\* the await, USERS.write(users), updateSession(newUser), cookie, redirect
SignupFinish(s) ==
  /\ reqs[s].pc = "hash"
  /\ Drawn + 2 <= MaxIds
  /\ LET newUser == [_id |-> nextId, username |-> reqs[s].username,
                     password |-> Hash(reqs[s].password)]
         sessionId == nextId + 1
     IN /\ users' = Push(reqs[s].users, newUser)
        /\ sessions' = UpdateSession(sessions, sessionId, newUser)
        /\ resp' = Response("signup", 302, sessionId, <<>>)
        /\ signedUp' = signedUp \cup
             {[username |-> reqs[s].username, password |-> reqs[s].password, user |-> newUser]}
        /\ issued' = issued \cup {[sessionId |-> sessionId, userId |-> newUser._id]}
  /\ nextId' = nextId + 2
  /\ reqs' = [reqs EXCEPT ![s] = Idle]
  /\ UNCHANGED <<timers, clock, loggedOut, up>>

\* the (username, password) pairs of the signups answered with success
Registered == {<<r.username, r.password>> : r \in signedUp}

\* POST /login up to `await bcrypt.compare(password, user.password)`; the
\* handler suspends holding the user record it found.  The field registered
\* is history: whether a signup with this username and password had been
\* answered with success when the login arrived.
LoginStart(n, username, password) ==
  LET user == Find(users, username)
      s == FreeSlot(n)
  IN IF Empty(username) \/ Empty(password)
     THEN /\ resp' = Response("login", 400, Undefined, <<>>)
          /\ UNCHANGED <<users, sessions, timers, clock, nextId, reqs, signedUp, issued, loggedOut, up>>
     ELSE IF user = Undefined
     THEN /\ resp' = Response("login", 404, Undefined, <<>>)
          /\ UNCHANGED <<users, sessions, timers, clock, nextId, reqs, signedUp, issued, loggedOut, up>>
     ELSE /\ s # Undefined
          /\ reqs' = [reqs EXCEPT ![s] =
                        [pc |-> "compare", username |-> username,
                         password |-> password, user |-> users[user],
                         registered |-> <<username, password>> \in Registered]]
          /\ UNCHANGED <<users, sessions, timers, clock, nextId, resp, signedUp, issued, loggedOut, up>>

\* POST /login after the await: 401 on a mismatch, else updateSession(user),
\* cookie, redirect
LoginFinish(s) ==
  /\ reqs[s].pc = "compare"
  /\ LET match == Compare(reqs[s].password, reqs[s].user.password)
         sessionId == nextId
     IN IF ~match
        THEN /\ resp' = Response("login", 401, Undefined, <<>>)
             /\ UNCHANGED <<sessions, nextId, issued>>
        ELSE /\ Drawn + 1 <= MaxIds
             /\ sessions' = UpdateSession(sessions, sessionId, reqs[s].user)
             /\ resp' = Response("login", 302, sessionId, <<>>)
             /\ issued' = issued \cup {[sessionId |-> sessionId, userId |-> reqs[s].user._id]}
             /\ nextId' = nextId + 1
  /\ reqs' = [reqs EXCEPT ![s] = Idle]
  /\ UNCHANGED <<users, timers, clock, signedUp, loggedOut, up>>

\* The account workload: signups and logins with up to MaxReqs handlers
\* suspended, logouts, and a protected request (list) presenting any cookie.
Next ==
  \/ \E u \in Usernames, p \in Passwords : SignupStart(MaxReqs, u, p)
  \/ \E s \in Slots : SignupFinish(s)
  \/ \E u \in Usernames, p \in Passwords : LoginStart(MaxReqs, u, p)
  \/ \E s \in Slots : LoginFinish(s)
  \/ \E c \in Cookies : Logout(c)
  \/ \E c \in Cookies : ListTimers(c, "true")

Spec == Init /\ [][Next]_vars

\* The timer workload: clients sign up one at a time with one password, log
\* out, and list, start and stop timers while the clock advances.
TimerNext ==
  \/ Tick
  \/ \E u \in Usernames : SignupStart(1, u, "p")
  \/ SignupFinish(1)
  \/ \E c \in Cookies : Logout(c)
  \/ \E c \in Cookies, q \in Queries : ListTimers(c, q)
  \/ \E c \in Cookies, d \in Descriptions : StartTimer(c, d)
  \/ \E c \in Cookies, id \in TimerIds : StopTimer(c, id)

TimerSpec == Init /\ [][TimerNext]_vars

\* ------------------------------------------------------ storage failures
\* db.read() throws when the file cannot be read or its JSON is malformed,
\* db.write() when the file cannot be written; a failed write is taken to
\* leave the file as it was.  An identifier drawn by nanoid() and never
\* stored is not counted in nextId.

\* What becomes of an exception thrown by an async handler outside its try
\* block (a rejected promise that nothing awaits).  The source pins neither
\* the Express nor the Node version:
\*   "forwarded"  the router passes the rejection to the error handler,
\*                which answers 500 (Express 5);
\*   "ignored"    the rejection is unhandled and only reported, no response
\*                is ever sent (Express 4, Node before 15);
\*   "exit"       the unhandled rejection ends the process (Express 4,
\*                Node 15 and later).
AsyncRejection == {"forwarded", "ignored", "exit"}

\* the response (status 0: none) and the process after such a rejection
Rejected(op, outcome) ==
  /\ resp' = Response(op, IF outcome = "forwarded" THEN 500 ELSE 0, Undefined, <<>>)
  /\ up' = (outcome # "exit")

\* POST /signup, USERS.read() throws: the call is outside the try block
SignupReadFails(username, password) ==
  /\ ~Empty(username) /\ ~Empty(password)
  /\ \E outcome \in AsyncRejection : Rejected("signup", outcome)
  /\ UNCHANGED <<users, sessions, timers, clock, nextId, reqs, signedUp, issued, loggedOut>>

\* POST /signup after the await, an exception inside the try block, caught
\* and answered 500: at "hash" bcrypt.hash rejects, at "users" USERS.write
\* throws, at "sessions" the read or the write of updateSession throws, the
\* new user being written already
SignupFails(s, at) ==
  /\ reqs[s].pc = "hash"
  /\ LET newUser == [_id |-> nextId, username |-> reqs[s].username,
                     password |-> Hash(reqs[s].password)]
     IN IF at = "sessions"
        THEN /\ Drawn + 1 <= MaxIds
             /\ users' = Push(reqs[s].users, newUser)
             /\ nextId' = nextId + 1
        ELSE UNCHANGED <<users, nextId>>
  /\ resp' = Response("signup", 500, Undefined, <<>>)
  /\ reqs' = [reqs EXCEPT ![s] = Idle]
  /\ UNCHANGED <<sessions, timers, clock, signedUp, issued, loggedOut, up>>

\* POST /login, USERS.read() throws: the call is outside the try block
LoginReadFails(username, password) ==
  /\ ~Empty(username) /\ ~Empty(password)
  /\ \E outcome \in AsyncRejection : Rejected("login", outcome)
  /\ UNCHANGED <<users, sessions, timers, clock, nextId, reqs, signedUp, issued, loggedOut>>

\* POST /login after the await, an exception inside the try block, caught and
\* answered 500: at "compare" bcrypt.compare rejects, at "sessions" the read
\* or the write of updateSession throws (the password having matched)
LoginFails(s, at) ==
  /\ reqs[s].pc = "compare"
  /\ at = "sessions" => Compare(reqs[s].password, reqs[s].user.password)
  /\ resp' = Response("login", 500, Undefined, <<>>)
  /\ reqs' = [reqs EXCEPT ![s] = Idle]
  /\ UNCHANGED <<users, sessions, timers, clock, nextId, signedUp, issued, loggedOut, up>>

\* A protected handler (op: "list", "start", "stop", "logout") in which a
\* read or a write throws.  At "gate" it is SESSIONS.read() of checkSession:
\* the exception leaves the synchronous handler and the router answers 500.
\* At "body" it is a later read or write of the handler: POST /api/timers
\* catches it and answers 400 with the exception's message, from the other
\* handlers it reaches the router (500); when checkSession has sent 401
\* already, nothing more is sent.  No
\* collection has been written when the exception is thrown.
ProtectedFails(op, cookie, at) ==
  LET session == checkSession(cookie)
  IN /\ resp' = IF at = "gate"
                THEN Response(op, 500, Undefined, <<>>)
                ELSE Response(op, Sent(session, IF op = "start" THEN 400 ELSE 500),
                              Undefined,
                              IF op = "start"
                              THEN First(session, <<"storage error">>, <<>>)
                              ELSE <<>>)
     /\ UNCHANGED <<users, sessions, timers, clock, nextId, reqs, signedUp, issued, loggedOut, up>>

ProtectedOps == {"list", "start", "stop", "logout"}

\* The workload with failing storage: one client name, one handler
\* suspended at a time, signup, login, logout, list and start, and in every
\* handler reads and writes that may throw; a process that has exited
\* handles nothing.
FaultNext ==
  \/ up /\ \E u \in {"", "a"}, p \in {"", "p"} : SignupStart(1, u, p)
  \/ up /\ SignupFinish(1)
  \/ up /\ \E u \in {"", "a"}, p \in {"", "p"} : LoginStart(1, u, p)
  \/ up /\ LoginFinish(1)
  \/ up /\ \E c \in Cookies : Logout(c)
  \/ up /\ \E c \in Cookies : ListTimers(c, "true")
  \/ up /\ \E c \in Cookies, d \in Descriptions : StartTimer(c, d)
  \/ up /\ SignupReadFails("a", "p")
  \/ up /\ \E at \in {"hash", "users", "sessions"} : SignupFails(1, at)
  \/ up /\ LoginReadFails("a", "p")
  \/ up /\ \E at \in {"compare", "sessions"} : LoginFails(1, at)
  \/ up /\ \E op \in ProtectedOps, c \in Cookies, at \in {"gate", "body"} :
             ProtectedFails(op, c, at)

FaultSpec == Init /\ [][FaultNext]_vars

\* ------------------------------------------------------------ properties
\* the cookie resolves: it is present and a key of sessions
ValidSession(c) == c # Undefined /\ c \in DOMAIN sessions

\* a step of a protected route (list, start, stop, logout) presenting cookie c
ProtectedRequest(c) ==
  \/ \E q \in Queries : ListTimers(c, q)
  \/ \E d \in Descriptions : StartTimer(c, d)
  \/ \E id \in TimerIds : StopTimer(c, id)
  \/ Logout(c)

\* C1: a protected request without a valid session is answered 401 and
\* leaves users, timers and sessions as they were.
C1_GateRejectsWithoutEffect ==
  [][\A c \in Cookies :
       (~ValidSession(c) /\ ProtectedRequest(c))
         => (resp'.status = 401 /\ UNCHANGED <<users, timers, sessions>>)]_vars

\* the timer with this id is in the collection and belongs to this user
OwnTimer(userId, id) ==
  \E i \in 1..Len(timers) : timers[i].id = id /\ timers[i].userId = userId

\* C2: a stop with a valid session for an id that no timer has, or that a
\* timer of another user has, is answered with the one 403 response and
\* leaves the timers collection as it was.
C2_StopForbidden ==
  [][\A c \in Cookies, id \in TimerIds :
       (ValidSession(c) /\ ~OwnTimer(sessions[c].userId, id) /\ StopTimer(c, id))
         => (resp' = Response("stop", 403, Undefined, <<>>) /\ timers' = timers)]_vars

\* a stop was answered 403 while an active timer of another user is stored
C2_Witness ==
  /\ resp.op = "stop" /\ resp.status = 403
  /\ \E c \in DOMAIN sessions, i \in 1..Len(timers) :
       /\ timers[i].isActive
       /\ timers[i].userId # Undefined
       /\ timers[i].userId # sessions[c].userId

\* C3: no two records of the users collection have the same username.
C3_UniqueUsernames ==
  \A i, j \in 1..Len(users) : users[i].username = users[j].username => i = j

\* two signups with one username, in flight together, have both written
\* users
C3_Witness ==
  /\ \E a, b \in signedUp : a # b /\ a.username = b.username
  /\ users # <<>>

\* C4: of the signups with one username at most one is answered with
\* success.
C4_OneSuccessPerUsername ==
  \A a, b \in signedUp : a.username = b.username => a = b

\* C5: a session id set by signup or login resolves to that user's _id until
\* a logout presents it; from then on it is no key of sessions and a
\* protected request presenting it is answered 401.
C5_SessionResolves ==
  /\ [](\A i \in issued :
          IF i.sessionId \in loggedOut
          THEN i.sessionId \notin DOMAIN sessions
          ELSE /\ i.sessionId \in DOMAIN sessions
               /\ sessions[i.sessionId].userId = i.userId)
  /\ [][/\ \A s \in Slots :
             SignupFinish(s) =>
               /\ resp'.setCookie \in DOMAIN sessions'
               /\ sessions'[resp'.setCookie].userId = users'[Len(users')]._id
               /\ users'[Len(users')].username = reqs[s].username
        /\ \A s \in Slots :
             (LoginFinish(s) /\ resp'.status = 302) =>
               /\ resp'.setCookie \in DOMAIN sessions'
               /\ sessions'[resp'.setCookie].userId = reqs[s].user._id
               /\ reqs[s].user.username = reqs[s].username
        /\ \A c \in loggedOut : ProtectedRequest(c) => resp'.status = 401]_vars

\* a session was logged out, another one is live, and the protected request
\* handled last was answered 401
C5_Witness ==
  /\ loggedOut # {}
  /\ \E i \in issued : i.sessionId \in DOMAIN sessions
  /\ resp.op = "list" /\ resp.status = 401

\* the usernames of the signups answered with success
RegisteredNames == {r.username : r \in signedUp}

\* C6: a login with the username and password of a signup answered with
\* success is answered with success and a new session of that user; with
\* that username and another password it is answered 401, with a username
\* no user has 404, and neither creates a session.
C6_LoginOutcome ==
  [][/\ \A u \in Usernames, p \in Passwords :
          (<<u, p>> \in Registered /\ LoginStart(MaxReqs, u, p)) => reqs' # reqs
     /\ \A s \in Slots :
          (reqs[s].pc = "compare" /\ reqs[s].registered /\ LoginFinish(s)) =>
             /\ resp'.status = 302
             /\ resp'.setCookie \notin DOMAIN sessions
             /\ resp'.setCookie \in DOMAIN sessions'
             /\ \E r \in signedUp :
                  /\ r.username = reqs[s].username
                  /\ r.password = reqs[s].password
                  /\ sessions'[resp'.setCookie].userId = r.user._id
     /\ \A s \in Slots :
          (/\ reqs[s].pc = "compare"
           /\ reqs[s].username \in RegisteredNames
           /\ <<reqs[s].username, reqs[s].password>> \notin Registered
           /\ LoginFinish(s)) =>
             (resp'.status = 401 /\ sessions' = sessions)
     /\ \A u \in Usernames, p \in Passwords :
          (/\ ~Empty(u) /\ ~Empty(p)
           /\ \A i \in 1..Len(users) : users[i].username # u
           /\ LoginStart(MaxReqs, u, p)) =>
             (resp' = Response("login", 404, Undefined, <<>>) /\ sessions' = sessions)]_vars

\* C7: the record of a signup answered with success stays in the users
\* collection, unchanged.
C7_UserKept ==
  \A r \in signedUp : \E i \in 1..Len(users) : users[i] = r.user

\* C8: a stopped timer of a user keeps every field in every later step (its
\* end and its duration included, whoever sends a stop for it).
C8_StoppedIsTerminal ==
  [][\A i \in 1..Len(timers) :
       (timers[i].userId # Undefined /\ ~timers[i].isActive)
         => (i <= Len(timers') /\ timers'[i] = timers[i])]_vars

\* C9: a timer is never removed: every stored timer stays at its place with
\* its id, owner, description and start, a stop is never undone, and the
\* timer a start answered with 201 is stored.
C9_TimerNeverLost ==
  [][/\ \A i \in 1..Len(timers) :
          /\ i <= Len(timers')
          /\ timers'[i].id = timers[i].id
          /\ timers'[i].userId = timers[i].userId
          /\ timers'[i].description = timers[i].description
          /\ timers'[i].start = timers[i].start
          /\ ~timers[i].isActive => ~timers'[i].isActive
     /\ \A c \in Cookies, d \in Descriptions :
          (StartTimer(c, d) /\ resp'.status = 201) =>
             /\ Len(resp'.body) = 1
             /\ \E i \in 1..Len(timers') : timers'[i] = resp'.body[1]
             /\ \A i \in 1..Len(timers) : timers[i].id # resp'.body[1].id]_vars

\* two timers are stored, the first one stopped, after a start answered 201
C9_Witness ==
  /\ Len(timers) = 2
  /\ ~timers[1].isActive
  /\ resp.op = "start" /\ resp.status = 201
  /\ resp.body = <<timers[2]>>

\* the places of the stored timers that a list for userId and b is to return
Matching(userId, b) ==
  {i \in 1..Len(timers) : timers[i].userId = userId /\ timers[i].isActive = b}

\* C10: a list with a valid session and filter b returns exactly the stored
\* timers of the session's user whose isActive is b, each once, in storage
\* order; a timer just started is stored once, active, under its owner.
C10_ListExact ==
  [][/\ \A c \in Cookies, q \in Queries :
          (ValidSession(c) /\ ListTimers(c, q)) =>
             LET m == Matching(sessions[c].userId, q = "true")
                 body == resp'.body
             IN /\ resp'.status = 200
                /\ Len(body) = Cardinality(m)
                /\ \A k \in 1..Len(body) : \E i \in m : body[k] = timers[i]
                /\ \A k, l \in 1..Len(body) :
                     k < l => \E i, j \in m :
                                i < j /\ body[k] = timers[i] /\ body[l] = timers[j]
     /\ \A c \in Cookies, d \in Descriptions :
          (ValidSession(c) /\ ~Empty(d) /\ StartTimer(c, d)) =>
             /\ resp'.status = 201
             /\ Cardinality({i \in 1..Len(timers') : timers'[i].id = resp'.body[1].id}) = 1
             /\ resp'.body[1].isActive
             /\ resp'.body[1].userId = sessions[c].userId
             /\ \E i \in 1..Len(timers') : timers'[i] = resp'.body[1]]_vars

\* a list returned a timer while a timer of another user is stored
C10_Witness ==
  /\ resp.op = "list" /\ resp.status = 200
  /\ Len(resp.body) >= 1
  /\ \E i \in 1..Len(timers) :
       /\ timers[i].userId # Undefined
       /\ timers[i].userId # resp.body[1].userId

\* C11: every stored timer is well formed: an active one has a start and
\* neither end nor duration; a stopped one has an end and a duration, the
\* duration is end - start and, the clock never going back, not negative.
C11_TimerWellFormed ==
  \A i \in 1..Len(timers) :
    LET t == timers[i]
    IN /\ t.start \in 0..MaxClock
       /\ IF t.isActive
          THEN t.end = NoTime /\ t.duration = NoTime
          ELSE /\ t.end \in 0..MaxClock
               /\ t.duration = t.end - t.start
               /\ t.duration >= 0

\* a timer started at one time and stopped at a later one is stored
C11_Witness ==
  \E i \in 1..Len(timers) :
    ~timers[i].isActive /\ timers[i].start = 0 /\ timers[i].duration > 0

\* C12: a signup or login answered with success adds one entry, under a new
\* key, to sessions and keeps every entry there was, so that a user can hold
\* several sessions.
C12_SessionAdded ==
  [][\A s \in Slots :
       ((SignupFinish(s) \/ LoginFinish(s)) /\ resp'.status = 302) =>
          /\ resp'.setCookie \notin DOMAIN sessions
          /\ DOMAIN sessions' = DOMAIN sessions \cup {resp'.setCookie}
          /\ \A k \in DOMAIN sessions : sessions'[k] = sessions[k]]_vars

\* a login was answered with success and its user holds two sessions
C12_Witness ==
  /\ resp.op = "login" /\ resp.status = 302
  /\ \E k \in DOMAIN sessions :
       /\ k # resp.setCookie
       /\ resp.setCookie \in DOMAIN sessions
       /\ sessions[k].userId = sessions[resp.setCookie].userId

\* a step in which a read or a write of a collection file throws
StorageFailure ==
  \/ \E u \in Usernames, p \in Passwords : SignupReadFails(u, p)
  \/ \E u \in Usernames, p \in Passwords : LoginReadFails(u, p)
  \/ \E s \in Slots, at \in {"users", "sessions"} : SignupFails(s, at)
  \/ \E s \in Slots : LoginFails(s, "sessions")
  \/ \E op \in ProtectedOps, c \in Cookies, at \in {"gate", "body"} :
       ProtectedFails(op, c, at)

\* C13: a request in which a read or a write of a collection file fails is
\* answered with an error status, and the server goes on running.
C13_FailureAnswered ==
  [][StorageFailure => (resp'.status >= 400 /\ up')]_vars

\* C14: a signup or login with an empty username or password is answered
\* 400, whatever the users collection holds, and a start with a valid
\* session and an empty description is answered 400; users, sessions and
\* timers stay as they were.
C14_ValidationRejects ==
  [][/\ \A u \in Usernames, p \in Passwords :
          ((u = "" \/ p = "") /\ SignupStart(1, u, p)) =>
             /\ resp' = Response("signup", 400, Undefined, <<>>)
             /\ UNCHANGED <<users, sessions, timers>>
     /\ \A u \in Usernames, p \in Passwords :
          ((u = "" \/ p = "") /\ LoginStart(1, u, p)) =>
             /\ resp' = Response("login", 400, Undefined, <<>>)
             /\ UNCHANGED <<users, sessions, timers>>
     /\ \A c \in Cookies :
          (ValidSession(c) /\ StartTimer(c, "")) =>
             /\ resp' = Response("start", 400, Undefined, <<"Description is required">>)
             /\ UNCHANGED <<users, sessions, timers>>]_vars

\* a start without description was answered 400 while a user, a session and
\* a timer are stored
C14_Witness ==
  /\ resp = Response("start", 400, Undefined, <<"Description is required">>)
  /\ users # <<>>
  /\ DOMAIN sessions # {}
  /\ timers # <<>>

\* C15: a logout presenting a valid session id removes that entry of
\* sessions and no other, and leaves users and timers as they were.
C15_LogoutRemovesOne ==
  [][\A c \in Cookies :
       (ValidSession(c) /\ Logout(c)) =>
          /\ DOMAIN sessions' = DOMAIN sessions \ {c}
          /\ \A k \in DOMAIN sessions' : sessions'[k] = sessions[k]
          /\ UNCHANGED <<users, timers>>]_vars

\* a logout was answered with the redirect, another session of the same
\* user is live, and a timer is stored
C15_Witness ==
  /\ resp.op = "logout" /\ resp.status = 302
  /\ timers # <<>>
  /\ \E i, j \in issued :
       /\ i.sessionId \in loggedOut
       /\ j.sessionId \in DOMAIN sessions
       /\ i.userId = j.userId

\* C16: the userId of every entry of sessions is the _id of a record of the
\* users collection.
C16_SessionHasUser ==
  \A k \in DOMAIN sessions :
    \E i \in 1..Len(users) : users[i]._id = sessions[k].userId

\* a step of POST /signup, failing or not
SignupStep ==
  \/ \E u \in Usernames, p \in Passwords : SignupStart(1, u, p)
  \/ \E u \in Usernames, p \in Passwords : SignupReadFails(u, p)
  \/ \E s \in Slots, at \in {"hash", "users", "sessions"} : SignupFails(s, at)

\* C17: a signup answered 400, 409 or 500 has changed neither users nor
\* sessions.
C17_SignupAllOrNothing ==
  [][(SignupStep /\ resp'.op = "signup" /\ resp'.status \in {400, 409, 500})
       => UNCHANGED <<users, sessions>>]_vars
====
